---------------------------- MODULE Spec2Model ----------------------------
(***************************************************************************)
(* Heading / orientation engine of the field-survey app                    *)
(* (class OrientationManager, second definition in src/unnamed/part_001).  *)
(*                                                                         *)
(* Angles delivered by the platform are real numbers.  They are modelled   *)
(* in fixed point: an input value x stands for x / Scale degrees, so that  *)
(* Math.round is a real conversion and not the identity.  The values the   *)
(* program stores (azimuth, pitch, buffer entries, smoothedAzimuth) are    *)
(* whole degrees, as produced by Math.round.                               *)
(*                                                                         *)
(* A nullable JavaScript value is a sequence: <<>> is null, <<v>> is v.    *)
(***************************************************************************)
EXTENDS Integers, Sequences, FiniteSets, TLC

VARIABLES
    azimuth,            \* this.azimuth: null or whole degrees
    pitch,              \* this.pitch: null or whole degrees
    isTracking,         \* this.isTracking
    hasReceivedData,    \* this.hasReceivedData
    azimuthBuffer,      \* this.azimuthBuffer: sequence of whole degrees
    smoothedAzimuth,    \* this.smoothedAzimuth: null or whole degrees
    absoluteListeners,  \* listeners the manager has added for 'deviceorientationabsolute'
    relativeListeners,  \* listeners the manager has added for 'deviceorientation'
    azimuthText,        \* what updateDisplay last wrote to #azimuth (null before)
    pitchText,          \* what updateDisplay last wrote to #pitch (null before)
    uncaught,           \* an exception escaped a sample listener in the last dispatch
    platform,           \* what the browser offers: see Platforms
    permission,         \* outcome of DeviceOrientationEvent.requestPermission(): see Permissions
    button,             \* the #enable-orientation-btn element: see Buttons
    pending,            \* where requestPermission() is suspended: see Pendings
    lastEvent,          \* the orientation event most recently dispatched (null before the first)
    rawLog,             \* history: every raw azimuth passed to smoothAzimuth, in arrival order
    lastOp,             \* history: the operation that ran last
    snapshot,           \* what a consumer last read through the getters (null before)
    pinManager,         \* window.pinManager: see PinManagers
    currentAzimuth,     \* PinManager.currentAzimuth: null or an input-scaled value
    currentElevation,   \* PinManager.currentElevation: null or an input-scaled value
    photoMetadata,      \* the metadata of the photo captured last (null before)
    currentPin,         \* PinManager.currentPin: null or a reference into pinObjects
    currentPhoto,       \* PinManager.currentPhoto: null or a photo
    pinObjects,         \* the pin and saved-location objects created so far, by reference
    savedLocations,     \* PinManager.savedLocations: references into pinObjects
    markersOnMap,       \* the pin markers that are layers of the map
    clickTarget,        \* per marker: the object its click handler passes to editPin (null: none)
    pendingCapture,     \* the photo capture that is suspended (null: none)
    captureFailed       \* history: a reader.onload callback threw

\* the fields of the OrientationManager
engineVars ==
    <<azimuth, pitch, isTracking, hasReceivedData, azimuthBuffer, smoothedAzimuth,
      absoluteListeners, relativeListeners, azimuthText, pitchText, uncaught, rawLog>>

\* the browser and the page around the manager
pageVars == <<platform, permission, button, pending>>

\* the fields of the PinManager and the photo it produced
pinStore ==
    <<currentPin, currentPhoto, pinObjects, savedLocations, markersOnMap, clickTarget,
      pendingCapture, captureFailed>>

pinVars == <<pinManager, currentAzimuth, currentElevation, photoMetadata, pinStore>>

vars == <<engineVars, pageVars, pinVars, lastEvent, lastOp, snapshot>>

---------------------------------------------------------------------------
(* Bounds of the model *)

\* resolution of the sensor inputs: an input unit is 1/Scale degree
Scale == 2

\* number of azimuth-updating samples in a behaviour of Spec
MaxIngests == 2

\* number of azimuth-updating samples in a behaviour of SpecFifo
MaxFifoIngests == 6

\* number of listeners per event type in a behaviour of SpecLifecycle
MaxListeners == 3

\* number of azimuth-updating handler runs in a behaviour of SpecLifecycle
MaxLifecycleIngests == 3

\* number of azimuth-updating samples in a behaviour of SpecCapture
MaxCaptureIngests == 2

\* number of pins created with createPin in a behaviour
MaxPins == 2

\* number of locations saved with saveAsFavorite in a behaviour
MaxSaved == 2

---------------------------------------------------------------------------
(* JavaScript values and arithmetic *)

Null == <<>>

Some(v) == <<v>>

Val(x) == x[1]

\* d whole degrees as an input value
Deg(d) == d * Scale

\* Math.round of the input-scaled value x: floor(x/Scale + 1/2), in whole degrees
JsRound(x) == (2 * x + Scale) \div (2 * Scale)

\* the % operator: the remainder takes the sign of the dividend
JsRem(a, m) == IF a >= 0 THEN a % m ELSE -((-a) % m)

\* ToNumber of a nullable numeric field: null converts to 0
ToNumber(x) == IF x = Null THEN 0 ELSE Val(x)

---------------------------------------------------------------------------
(* this.bufferSize *)

bufferSize == 5


---------------------------------------------------------------------------
(* smoothAzimuth: circular moving average over the last bufferSize readings *)

RECURSIVE Sum(_)
\* reduce((a, b) => a + b, 0)
Sum(s) == IF s = <<>> THEN 0 ELSE Head(s) + Sum(Tail(s))

\* variant: pop() in place of shift(), the newest reading is dropped
pushReadingPop(buffer, newAzimuth) ==
    LET pushed == Append(buffer, newAzimuth)
    IN  IF Len(pushed) > bufferSize THEN SubSeq(pushed, 1, bufferSize) ELSE pushed

\* variant: nothing is shifted out, the buffer keeps every reading
pushReadingKeepsAll(buffer, newAzimuth) == Append(buffer, newAzimuth)

\* push the new reading, shift the oldest out when the buffer is over size
pushReading(buffer, newAzimuth) ==
    LET pushed == Append(buffer, newAzimuth)
    IN  IF Len(pushed) > bufferSize THEN Tail(pushed) ELSE pushed

\* variant: the quadrant limits 90 and 270 themselves count as straddling
hasWraparoundInclusive(buffer) ==
    /\ \E i \in DOMAIN buffer : buffer[i] <= 90
    /\ \E i \in DOMAIN buffer : buffer[i] >= 270

\* some(v => v < 90) && some(v => v > 270)
hasWraparound(buffer) ==
    /\ \E i \in DOMAIN buffer : buffer[i] < 90
    /\ \E i \in DOMAIN buffer : buffer[i] > 270

\* variant: the values are averaged as they are
normalizedUnshifted(buffer) == buffer

\* map(v => v < 180 ? v + 360 : v)
normalized(buffer) ==
    [i \in DOMAIN buffer |-> IF buffer[i] < 180 THEN buffer[i] + 360 ELSE buffer[i]]

\* the variable `average` as the exact fraction num / den.  The buffer holds
\* integers and den <= bufferSize, so the double the program computes rounds
\* exactly as this fraction does.  (num / den) % 360 = (num % (360 * den)) / den.
average(buffer) ==
    IF hasWraparound(buffer)
    THEN [num |-> JsRem(Sum(normalized(buffer)), 360 * Len(buffer)), den |-> Len(buffer)]
    ELSE [num |-> Sum(buffer), den |-> Len(buffer)]

\* Math.round(average): floor(num / den + 1/2)
roundAverage(avg) == (2 * avg.num + avg.den) \div (2 * avg.den)

\* smoothAzimuth(newAzimuth) on a given buffer: the buffer it leaves and the value it returns
smoothAzimuth(buffer, newAzimuth) ==
    LET kept == pushReading(buffer, newAzimuth)
    IN  [buffer |-> kept, result |-> roundAverage(average(kept))]

---------------------------------------------------------------------------
(* The two sample handlers.  Each ends with updateDisplay() and              *)
(* updateMapMarker().                                                       *)

\* variant: the lower clamp is missing
derivePitchNoLowerClamp(rawBeta) ==
    LET p == JsRound(rawBeta - Deg(90))
    IN  IF p > 90 THEN 90 ELSE p

\* this.pitch = Math.round(rawBeta - 90), clamped to -90..90
derivePitch(rawBeta) ==
    LET p == JsRound(rawBeta - Deg(90))
    IN  IF p > 90 THEN 90 ELSE IF p < -90 THEN -90 ELSE p

\* variant: the flip starts at a pitch of exactly 45
compensateFrom45(candidate, p) ==
    IF ToNumber(p) >= 45 THEN JsRem(candidate + Deg(180), Deg(360)) ELSE candidate

\* if (this.pitch > 45) azimuth = (azimuth + 180) % 360;  a null pitch compares as 0
compensate(candidate, p) ==
    IF ToNumber(p) > 45 THEN JsRem(candidate + Deg(180), Deg(360)) ELSE candidate

\* let azimuth = 360 - event.alpha
fallbackCandidate(alpha) == Deg(360) - alpha

\* the fields of the manager, what it wrote to the page, and the history
HeadingState ==
    [azimuth |-> azimuth, pitch |-> pitch, azimuthBuffer |-> azimuthBuffer,
     smoothedAzimuth |-> smoothedAzimuth, hasReceivedData |-> hasReceivedData,
     isTracking |-> isTracking, absoluteListeners |-> absoluteListeners,
     relativeListeners |-> relativeListeners, azimuthText |-> azimuthText,
     pitchText |-> pitchText, uncaught |-> uncaught, rawLog |-> rawLog]

\* variant: the smoothed value is taken from the buffer as it was before the push
storeAzimuthSmoothsBefore(st, corrected) ==
    LET raw == JsRound(corrected)
        sm  == smoothAzimuth(st.azimuthBuffer, raw)
    IN  [st EXCEPT !.azimuth = Some(raw),
                   !.azimuthBuffer = sm.buffer,
                   !.smoothedAzimuth =
                       IF st.azimuthBuffer = <<>>
                       THEN Null
                       ELSE Some(roundAverage(average(st.azimuthBuffer))),
                   !.rawLog = Append(@, raw)]

\* this.azimuth = Math.round(azimuth); this.smoothedAzimuth = this.smoothAzimuth(this.azimuth)
storeAzimuth(st, corrected) ==
    LET raw == JsRound(corrected)
        sm  == smoothAzimuth(st.azimuthBuffer, raw)
    IN  [st EXCEPT !.azimuth = Some(raw),
                   !.azimuthBuffer = sm.buffer,
                   !.smoothedAzimuth = Some(sm.result),
                   !.rawLog = Append(@, raw)]

\* variant: the null check is missing, a null beta counts as 0
withPitchNullAsZero(st, rawBeta) ==
    [st EXCEPT !.pitch = Some(derivePitch(ToNumber(rawBeta)))]

\* the pitch step shared by both handlers: if (rawBeta !== null) { ... }
withPitch(st, rawBeta) ==
    IF rawBeta # Null THEN [st EXCEPT !.pitch = Some(derivePitch(Val(rawBeta)))] ELSE st

\* const directions = ['N', 'NNE', ...]
directions ==
    <<"N", "NNE", "NE", "ENE", "E", "ESE", "SE", "SSE",
      "S", "SSW", "SW", "WSW", "W", "WNW", "NW", "NNW">>

\* Math.round(azimuth / 22.5) for a whole number of degrees:
\* floor(azimuth / 22.5 + 1/2) = floor((4 * azimuth + 45) / 90)
roundSector(wholeDegrees) == (4 * wholeDegrees + 45) \div 90

\* variant: Math.floor in place of Math.round
getCardinalDirectionFloor(wholeDegrees) ==
    LET index == JsRem((4 * wholeDegrees) \div 90, 16)
    IN  IF index + 1 \in DOMAIN directions THEN directions[index + 1] ELSE "undefined"

\* variant: the index is not reduced modulo 16
getCardinalDirectionNoWrap(wholeDegrees) ==
    LET index == roundSector(wholeDegrees)
    IN  IF index + 1 \in DOMAIN directions THEN directions[index + 1] ELSE "undefined"

\* getCardinalDirection(azimuth): directions[Math.round(azimuth / 22.5) % 16],
\* undefined when the index is outside the array
getCardinalDirection(wholeDegrees) ==
    LET index == JsRem(roundSector(wholeDegrees), 16)
    IN  IF index + 1 \in DOMAIN directions THEN directions[index + 1] ELSE "undefined"

\* variant: the display step applies the tilt flip to this.azimuth in place
updateDisplayFlipsInPlace(st) ==
    LET flipped == IF st.azimuth # Null /\ ToNumber(st.pitch) > 45
                   THEN Some(JsRem(Val(st.azimuth) + 180, 360))
                   ELSE st.azimuth
    IN  [st EXCEPT !.azimuth = flipped,
                   !.azimuthText =
                       IF flipped # Null
                       THEN Some([azimuth |-> Val(flipped),
                                  direction |-> getCardinalDirection(Val(flipped))])
                       ELSE @,
                   !.pitchText = IF st.pitch # Null THEN st.pitch ELSE @]

\* updateDisplay(): `Azimuth: ${azimuth} (${direction})` and `Pitch: ${pitch}`,
\* each written only when its value is not null
updateDisplay(st) ==
    [st EXCEPT !.azimuthText =
                   IF st.azimuth # Null
                   THEN Some([azimuth |-> Val(st.azimuth),
                              direction |-> getCardinalDirection(Val(st.azimuth))])
                   ELSE @,
               !.pitchText = IF st.pitch # Null THEN st.pitch ELSE @]

\* the methods of class MapManager, the object in window.mapManager
MapManagerMethods ==
    {"init", "onMapClick", "updateUserLocation", "centerMap", "addMarker",
     "addCustomPin", "removeMarker", "getMap"}

\* updateMapMarker(): if (window.mapManager && this.smoothedAzimuth !== null)
\*     window.mapManager.updateUserLocationRotation(this.smoothedAzimuth)
\* Calling a method the object does not have throws a TypeError; the call
\* writes no field of the manager.
updateMapMarker(st) ==
    IF st.smoothedAzimuth # Null /\ "updateUserLocationRotation" \notin MapManagerMethods
    THEN [st EXCEPT !.uncaught = TRUE]
    ELSE st

\* this.updateDisplay(); this.updateMapMarker();
refresh(st) == updateMapMarker(updateDisplay(st))

\* the 'deviceorientationabsolute' listener and handleOrientationAbsolute(event)
handleOrientationAbsolute(st, event) ==
    LET s0 == [st EXCEPT !.hasReceivedData = TRUE]
        s1 == withPitch(s0, event.beta)
    IN  refresh(IF event.alpha # Null /\ event.beta # Null
            THEN storeAzimuth(s1, compensate(Val(event.alpha), s1.pitch))
            ELSE s1)

\* variant: the azimuth is compensated with the pitch of the previous sample
handleOrientationStalePitch(st, event) ==
    LET s0 == [st EXCEPT !.hasReceivedData = TRUE]
        s1 == withPitch(s0, event.beta)
    IN  refresh(IF event.hasCompassHeading
            THEN storeAzimuth(s1, compensate(ToNumber(event.webkitCompassHeading), s0.pitch))
            ELSE IF event.alpha # Null
            THEN storeAzimuth(s1, compensate(fallbackCandidate(Val(event.alpha)), s0.pitch))
            ELSE s1)

\* the 'deviceorientation' listener and handleOrientation(event)
handleOrientation(st, event) ==
    LET s0 == [st EXCEPT !.hasReceivedData = TRUE]
        s1 == withPitch(s0, event.beta)
    IN  refresh(IF event.hasCompassHeading
            THEN storeAzimuth(s1, compensate(ToNumber(event.webkitCompassHeading), s1.pitch))
            ELSE IF event.alpha # Null
            THEN storeAzimuth(s1, compensate(fallbackCandidate(Val(event.alpha)), s1.pitch))
            ELSE s1)

---------------------------------------------------------------------------
(* Orientation events the platform dispatches *)

AbsoluteEvent(alpha, beta) ==
    [type |-> "deviceorientationabsolute", alpha |-> alpha, beta |-> beta,
     hasCompassHeading |-> FALSE, webkitCompassHeading |-> Null]

\* a 'deviceorientation' event without webkitCompassHeading (the property is undefined)
RelativeEvent(alpha, beta) ==
    [type |-> "deviceorientation", alpha |-> alpha, beta |-> beta,
     hasCompassHeading |-> FALSE, webkitCompassHeading |-> Null]

\* a 'deviceorientation' event that carries webkitCompassHeading
CompassEvent(heading, alpha, beta) ==
    [type |-> "deviceorientation", alpha |-> alpha, beta |-> beta,
     hasCompassHeading |-> TRUE, webkitCompassHeading |-> heading]

\* alpha: 0, 10, just under 180, just under 360, 360 degrees, or null
Alphas ==
    {Null, Some(0), Some(Deg(10)), Some(Deg(180) - 1), Some(Deg(360) - 1), Some(Deg(360))}

\* webkitCompassHeading: 10, just under 360 degrees, or null
Headings == {Null, Some(Deg(10)), Some(Deg(360) - 1)}

\* beta: -180, 135, just under 136, 140 degrees, or null
\* (pitch -90 by the clamp, 45, 46, 50)
Betas == {Null, Some(Deg(-180)), Some(Deg(135)), Some(Deg(136) - 1), Some(Deg(140))}

AbsoluteEvents == {AbsoluteEvent(a, b) : a \in Alphas, b \in Betas}

\* the last one is a sample whose webkitCompassHeading, alpha and beta are all null
RelativeEvents ==
    {RelativeEvent(a, b) : a \in Alphas, b \in Betas}
        \cup {CompassEvent(h, Some(Deg(90)), b) : h \in Headings, b \in Betas}
        \cup {CompassEvent(Null, Null, Null)}

\* the events of SpecFifo: few distinct readings, many samples
FifoAbsoluteEvents == {AbsoluteEvent(Some(Deg(d)), Some(Deg(120))) : d \in {350, 2}}

FifoRelativeEvents ==
    {RelativeEvent(Some(Deg(355)), Some(Deg(120))),
     CompassEvent(Some(Deg(180)), Some(Deg(90)), Some(Deg(120)))}

\* the raw azimuths SpecSmooth feeds to the smoother
SmoothValues == {0, 89, 90, 179, 180, 270, 271, 359, 360}

---------------------------------------------------------------------------
(* Starting and restarting the tracking *)

\* variant: the early return is missing
startTrackingUnguarded(st) ==
    [st EXCEPT !.absoluteListeners = @ + 1,
               !.relativeListeners = @ + 1,
               !.isTracking = TRUE]

\* variant: a start that registers listeners also clears what was measured
startTrackingResets(st) ==
    IF st.isTracking
    THEN st
    ELSE [st EXCEPT !.absoluteListeners = @ + 1,
                    !.relativeListeners = @ + 1,
                    !.isTracking = TRUE,
                    !.azimuth = Null,
                    !.smoothedAzimuth = Null,
                    !.azimuthBuffer = <<>>]

\* startTracking(): if (this.isTracking) return; add the two listeners;
\* this.isTracking = true  (the 3 s timer only logs)
startTracking(st) ==
    IF st.isTracking
    THEN st
    ELSE [st EXCEPT !.absoluteListeners = @ + 1,
                    !.relativeListeners = @ + 1,
                    !.isTracking = TRUE]

\* this.isTracking = false; this.startTracking();  (in requestPermission)
restart(st) == startTracking([st EXCEPT !.isTracking = FALSE])

\* the fields as the constructor leaves them before it calls this.init()
constructed ==
    [azimuth |-> Null, pitch |-> Null, azimuthBuffer |-> <<>>,
     smoothedAzimuth |-> Null, hasReceivedData |-> FALSE,
     isTracking |-> FALSE, absoluteListeners |-> 0, relativeListeners |-> 0,
     azimuthText |-> Null, pitchText |-> Null, uncaught |-> FALSE, rawLog |-> <<>>]

\* checkSensorSupport(): false when DeviceOrientationEvent is missing or
\* asks for permission, true otherwise
checkSensorSupport(p) == p = "direct"

\* init(): addPermissionButton(); checkSensorSupport(); startTracking();
\* the result of checkSensorSupport() is not used
init(st) == startTracking(st)

---------------------------------------------------------------------------
(* State machine *)

\* unsupported: window.DeviceOrientationEvent is missing;
\* needsPermission: DeviceOrientationEvent.requestPermission is a function;
\* direct: the events are delivered without asking
Platforms == {"unsupported", "needsPermission", "direct"}

Permissions == {"notAsked", "granted", "denied"}

\* the button addPermissionButton() puts into #controls
Buttons == {"enabled", "disabled", "removed"}

\* requestPermission() waits for the permission prompt or for its 2 s timer
Pendings == {"idle", "awaitingPermission", "grantedCheck", "directCheck"}

\* none: not constructed yet;  idle: constructed, no listener;  tracking: listener added
PinManagers == {"none", "idle", "tracking"}

\* the browser dispatches orientation events to the page
Delivering ==
    \/ checkSensorSupport(platform)
    \/ platform = "needsPermission" /\ permission = "granted"

\* the page is loaded: new OrientationManager() has run, the PinManager is
\* constructed 500 ms later
Init ==
    /\ platform \in Platforms
    /\ permission = "notAsked"
    /\ button = "enabled"
    /\ pending = "idle"
    /\ LET st == init(constructed)
       IN  /\ azimuth = st.azimuth
           /\ pitch = st.pitch
           /\ azimuthBuffer = st.azimuthBuffer
           /\ smoothedAzimuth = st.smoothedAzimuth
           /\ hasReceivedData = st.hasReceivedData
           /\ isTracking = st.isTracking
           /\ absoluteListeners = st.absoluteListeners
           /\ relativeListeners = st.relativeListeners
           /\ azimuthText = st.azimuthText
           /\ pitchText = st.pitchText
           /\ uncaught = st.uncaught
           /\ rawLog = st.rawLog
    /\ lastEvent = Null
    /\ lastOp = "constructor"
    /\ snapshot = Null
    /\ pinManager = "none"
    /\ currentAzimuth = Null
    /\ currentElevation = Null
    /\ photoMetadata = Null
    /\ currentPin = Null
    /\ currentPhoto = Null
    /\ pinObjects = <<>>
    /\ savedLocations = <<>>
    /\ markersOnMap = {}
    /\ clickTarget = <<>>
    /\ pendingCapture = Null
    /\ captureFailed = FALSE

\* the fields of the manager after an operation that left them as st
Write(st) ==
    /\ azimuth' = st.azimuth
    /\ pitch' = st.pitch
    /\ azimuthBuffer' = st.azimuthBuffer
    /\ smoothedAzimuth' = st.smoothedAzimuth
    /\ hasReceivedData' = st.hasReceivedData
    /\ isTracking' = st.isTracking
    /\ absoluteListeners' = st.absoluteListeners
    /\ relativeListeners' = st.relativeListeners
    /\ azimuthText' = st.azimuthText
    /\ pitchText' = st.pitchText
    /\ uncaught' = st.uncaught
    /\ rawLog' = st.rawLog

\* the listeners' result written back to the manager; the event is remembered
Apply(st, event) ==
    /\ Write(st)
    /\ lastEvent' = Some(event)
    /\ lastOp' = event.type

RECURSIVE deliverAbsolute(_, _, _)
\* the event is handed to each of the n 'deviceorientationabsolute' listeners in turn
deliverAbsolute(st, event, n) ==
    IF n = 0 THEN st ELSE deliverAbsolute(handleOrientationAbsolute(st, event), event, n - 1)

RECURSIVE deliverRelative(_, _, _)
\* the event is handed to each of the n 'deviceorientation' listeners in turn
deliverRelative(st, event, n) ==
    IF n = 0 THEN st ELSE deliverRelative(handleOrientation(st, event), event, n - 1)

\* e.alpha || 0, e.beta || 0, this.currentAzimuth || 0: null and 0 both give 0
orZero(x) == IF x = Null THEN 0 ELSE Val(x)

\* the PinManager's own 'deviceorientation' listener (startOrientationTracking)
PinListener(event) ==
    IF pinManager = "tracking"
    THEN /\ currentAzimuth' = Some(orZero(event.alpha))
         /\ currentElevation' = Some(orZero(event.beta))
         /\ UNCHANGED <<pinManager, photoMetadata, pinStore>>
    ELSE UNCHANGED pinVars

\* a 'deviceorientationabsolute' event reaches the registered listeners
DispatchAbsolute(events, cap) ==
    \E event \in events :
        /\ Delivering
        /\ absoluteListeners > 0
        /\ Apply(deliverAbsolute([HeadingState EXCEPT !.uncaught = FALSE],
                                 event, absoluteListeners), event)
        /\ Len(rawLog') <= cap
        /\ UNCHANGED <<pageVars, pinVars, snapshot>>

\* a 'deviceorientation' event reaches the registered listeners, the
\* manager's first, then the PinManager's
DispatchRelative(events, cap) ==
    \E event \in events :
        /\ Delivering
        /\ relativeListeners > 0
        /\ Apply(deliverRelative([HeadingState EXCEPT !.uncaught = FALSE],
                                 event, relativeListeners), event)
        /\ PinListener(event)
        /\ Len(rawLog') <= cap
        /\ UNCHANGED <<pageVars, snapshot>>

OnDeviceOrientationAbsolute == DispatchAbsolute(AbsoluteEvents, MaxIngests)

OnDeviceOrientation == DispatchRelative(RelativeEvents, MaxIngests)

Next == OnDeviceOrientationAbsolute \/ OnDeviceOrientation

Spec == Init /\ [][Next]_vars

FifoAbsolute == DispatchAbsolute(FifoAbsoluteEvents, MaxFifoIngests)

FifoRelative == DispatchRelative(FifoRelativeEvents, MaxFifoIngests)

NextFifo == FifoAbsolute \/ FifoRelative

SpecFifo == Init /\ [][NextFifo]_vars

\* the smoother driven directly: this.azimuth = v; this.smoothedAzimuth = this.smoothAzimuth(v)
SmoothStep ==
    \E v \in SmoothValues :
        LET st == storeAzimuth(HeadingState, Deg(v))
        IN  /\ azimuth' = st.azimuth
            /\ azimuthBuffer' = st.azimuthBuffer
            /\ smoothedAzimuth' = st.smoothedAzimuth
            /\ UNCHANGED <<pitch, isTracking, hasReceivedData, absoluteListeners,
                           relativeListeners, azimuthText, pitchText, uncaught,
                           rawLog, pageVars, pinVars, lastEvent, lastOp, snapshot>>

NextSmooth == SmoothStep

\* the smoother runs where samples arrive
InitSmooth == Init /\ platform = "direct"

SpecSmooth == InitSmooth /\ [][NextSmooth]_vars

\* one sample per whole degree, the device held upright (pitch 0)
CardinalEvents == {AbsoluteEvent(Some(Deg(d)), Some(Deg(90))) : d \in 0..360}

\* the first sample after the page is loaded
CardinalSample == lastEvent = Null /\ DispatchAbsolute(CardinalEvents, 1)

NextCardinal == CardinalSample

SpecCardinal == Init /\ [][NextCardinal]_vars

---------------------------------------------------------------------------
(* The life cycle: start, permission request, its timer, and the getters *)

\* startTracking() called on the running manager
StartTracking ==
    /\ Write(startTracking(HeadingState))
    /\ lastOp' = "startTracking"
    /\ UNCHANGED <<pageVars, pinVars, lastEvent, snapshot>>

\* a click on the button: requestPermission() up to its first suspension.
\* Where DeviceOrientationEvent is missing, line 554 reads a property of an
\* undeclared name and the call ends there with a ReferenceError; where
\* permission has to be asked the call waits for the prompt; elsewhere it
\* restarts the tracking and sets its 2 s timer.
RequestPermission ==
    /\ button = "enabled"
    /\ relativeListeners < MaxListeners
    /\ lastOp' = "requestPermission"
    /\ CASE platform = "unsupported" ->
                UNCHANGED <<engineVars, pageVars>>
         [] platform = "needsPermission" ->
                /\ button' = "disabled"
                /\ pending' = "awaitingPermission"
                /\ UNCHANGED <<engineVars, platform, permission>>
         [] platform = "direct" ->
                /\ button' = "disabled"
                /\ Write(restart(HeadingState))
                /\ pending' = "directCheck"
                /\ UNCHANGED <<platform, permission>>
    /\ UNCHANGED <<pinVars, lastEvent, snapshot>>

\* DeviceOrientationEvent.requestPermission() settles: 'granted', anything
\* else, or a rejection
PermissionResult ==
    /\ pending = "awaitingPermission"
    /\ lastOp' = "permissionResult"
    /\ \E outcome \in {"granted", "denied", "error"} :
           CASE outcome = "granted" ->
                    /\ permission' = "granted"
                    /\ Write(restart(HeadingState))
                    /\ pending' = "grantedCheck"
                    /\ UNCHANGED <<platform, button>>
             [] outcome = "denied" ->
                    /\ permission' = "denied"
                    /\ button' = "enabled"
                    /\ pending' = "idle"
                    /\ UNCHANGED <<engineVars, platform>>
             [] outcome = "error" ->
                    /\ button' = "enabled"
                    /\ pending' = "idle"
                    /\ UNCHANGED <<engineVars, platform, permission>>
    /\ UNCHANGED <<pinVars, lastEvent, snapshot>>

\* the 2 s timer of requestPermission(): with data the button is removed;
\* without data the direct branch enables it again, the granted branch
\* only changes its text
DataCheck ==
    /\ pending \in {"grantedCheck", "directCheck"}
    /\ lastOp' = "dataCheck"
    /\ button' = IF hasReceivedData THEN "removed"
                 ELSE IF pending = "directCheck" THEN "enabled"
                 ELSE button
    /\ pending' = "idle"
    /\ UNCHANGED <<engineVars, platform, permission, pinVars, lastEvent, snapshot>>

\* getAzimuth()
getAzimuth(st) == st.azimuth

\* getPitch()
getPitch(st) == st.pitch

\* a consumer reads getAzimuth(), getPitch() and the label of the azimuth;
\* Math.round(null / 22.5) is 0
ReadHeading ==
    /\ snapshot' = Some([azimuth |-> getAzimuth(HeadingState),
                         pitch |-> getPitch(HeadingState),
                         direction |-> getCardinalDirection(ToNumber(getAzimuth(HeadingState)))])
    /\ lastOp' = "read"
    /\ UNCHANGED <<engineVars, pageVars, pinVars, lastEvent>>

\* the events of SpecLifecycle

LifecycleAbsoluteEvents == {AbsoluteEvent(Some(Deg(350)), Some(Deg(140)))}

\* a reading, and a sample without values
LifecycleRelativeEvents ==
    {RelativeEvent(Some(Deg(350)), Some(Deg(120))), RelativeEvent(Null, Null)}

LifecycleAbsolute == DispatchAbsolute(LifecycleAbsoluteEvents, MaxLifecycleIngests)

LifecycleRelative == DispatchRelative(LifecycleRelativeEvents, MaxLifecycleIngests)

NextLifecycle ==
    \/ StartTracking
    \/ RequestPermission
    \/ PermissionResult
    \/ DataCheck
    \/ ReadHeading
    \/ LifecycleAbsolute
    \/ LifecycleRelative

SpecLifecycle == Init /\ [][NextLifecycle]_vars

---------------------------------------------------------------------------
(* The PinManager and the photo metadata *)

\* window.pinManager = new PinManager(): init() calls
\* requestOrientationPermission(), which adds the PinManager's own
\* 'deviceorientation' listener where the events need no permission, asks
\* for the permission where they do (adding the listener only when it is
\* granted), and does nothing where DeviceOrientationEvent is missing
ConstructPinManager ==
    /\ pinManager = "none"
    /\ lastOp' = "pinManager"
    /\ CASE platform = "unsupported" ->
                pinManager' = "idle" /\ UNCHANGED permission
         [] platform = "direct" ->
                pinManager' = "tracking" /\ UNCHANGED permission
         [] platform = "needsPermission" ->
                \E outcome \in {"granted", "denied", "error"} :
                    /\ pinManager' = IF outcome = "granted" THEN "tracking" ELSE "idle"
                    /\ permission' = IF outcome = "error" THEN permission ELSE outcome
    /\ UNCHANGED <<engineVars, platform, button, pending, currentAzimuth,
                   currentElevation, photoMetadata, pinStore, lastEvent, snapshot>>

\* handlePhotoCapture: compassData = { azimuth: this.currentAzimuth || 0,
\* elevation: this.currentElevation || 0, distance: null }
compassData(azimuthField, elevationField) ==
    [azimuth |-> orZero(azimuthField), elevation |-> orZero(elevationField)]

\* prepareMetadata: azimuth: compassData.azimuth || 0,
\* elevation: compassData.elevation || null  (an elevation of 0 becomes null)
prepareMetadata(data) ==
    [azimuth |-> orZero(Some(data.azimuth)),
     elevation |-> IF data.elevation = 0 THEN Null ELSE Some(data.elevation)]

\* what no operation on the pins changes
aroundPins ==
    <<engineVars, pageVars, pinManager, currentAzimuth, currentElevation, lastEvent,
      snapshot>>

\* the marker of an object (every pin and saved location has one)
markerOf(object) == pinObjects[Val(object)].marker

\* MapManager.onMapClick -> createPin(lat, lon): the marker of the current
\* pin, whatever it is, leaves the map; a new marker (whose click handler has
\* no pinData and edits nothing) and a new pin object become the current pin
CreatePin ==
    /\ pinManager # "none"
    /\ Len(clickTarget) < MaxPins
    /\ LET marker == Len(clickTarget) + 1
           removed == IF currentPin # Null THEN {markerOf(currentPin)} ELSE {}
       IN  /\ markersOnMap' = (markersOnMap \ removed) \cup {marker}
           /\ clickTarget' = Append(clickTarget, Null)
           /\ pinObjects' =
                  Append(pinObjects, [marker |-> marker, saved |-> FALSE, photo |-> Null])
    /\ currentPin' = Some(Len(pinObjects) + 1)
    /\ currentPhoto' = Null
    /\ lastOp' = "createPin"
    /\ UNCHANGED <<aroundPins, photoMetadata, savedLocations, pendingCapture, captureFailed>>

\* closeModal's condition: this.currentPin && this.currentPin.marker &&
\* !this.currentPin.saved
closeModalRemoves(pin, objects) == pin # Null /\ ~objects[Val(pin)].saved

\* closeModal (the close button, a click outside the modal)
CloseModal ==
    /\ pinManager # "none"
    /\ IF closeModalRemoves(currentPin, pinObjects)
       THEN /\ markersOnMap' = markersOnMap \ {markerOf(currentPin)}
            /\ currentPin' = Null
       ELSE UNCHANGED <<markersOnMap, currentPin>>
    /\ lastOp' = "closeModal"
    /\ UNCHANGED <<aroundPins, photoMetadata, currentPhoto, pinObjects, savedLocations,
                   clickTarget, pendingCapture, captureFailed>>

\* saveAsFavorite with a current pin (without one it returns at once): a new
\* savedLocation object, which has the marker of the current pin and no
\* 'saved' property, is pushed; the current pin gets saved = true; the marker's
\* click handler now edits the savedLocation; closeModal() then finds the
\* current pin saved and removes nothing
SaveAsFavorite ==
    /\ pinManager # "none"
    /\ currentPin # Null
    /\ Len(savedLocations) < MaxSaved
    /\ LET savedLocation == Len(pinObjects) + 1
           stored ==
               Append([pinObjects EXCEPT ![Val(currentPin)].saved = TRUE],
                      [marker |-> markerOf(currentPin), saved |-> FALSE,
                       photo |-> currentPhoto])
       IN  /\ pinObjects' = stored
           /\ savedLocations' = Append(savedLocations, savedLocation)
           /\ clickTarget' = [clickTarget EXCEPT ![markerOf(currentPin)] = Some(savedLocation)]
           /\ IF closeModalRemoves(currentPin, stored)
              THEN /\ markersOnMap' = markersOnMap \ {markerOf(currentPin)}
                   /\ currentPin' = Null
              ELSE UNCHANGED <<markersOnMap, currentPin>>
    /\ lastOp' = "saveAsFavorite"
    /\ UNCHANGED <<aroundPins, photoMetadata, currentPhoto, pendingCapture, captureFailed>>

\* a click on a marker of the map whose handler has an object: editPin(object)
EditPin ==
    /\ pinManager # "none"
    /\ \E marker \in markersOnMap :
          /\ clickTarget[marker] # Null
          /\ currentPin' = clickTarget[marker]
          /\ currentPhoto' =
                 IF pinObjects[Val(clickTarget[marker])].photo # Null
                 THEN pinObjects[Val(clickTarget[marker])].photo
                 ELSE currentPhoto
    /\ lastOp' = "editPin"
    /\ UNCHANGED <<aroundPins, photoMetadata, pinObjects, savedLocations, markersOnMap,
                   clickTarget, pendingCapture, captureFailed>>

\* deletePin: the marker of the current pin leaves the map, the pin and the
\* photo are cleared; closeModal() then finds no current pin
DeletePin ==
    /\ pinManager # "none"
    /\ IF currentPin # Null
       THEN /\ markersOnMap' = markersOnMap \ {markerOf(currentPin)}
            /\ currentPin' = Null
            /\ currentPhoto' = Null
       ELSE UNCHANGED <<markersOnMap, currentPin, currentPhoto>>
    /\ lastOp' = "deletePin"
    /\ UNCHANGED <<aroundPins, photoMetadata, pinObjects, savedLocations, clickTarget,
                   pendingCapture, captureFailed>>

\* handlePhotoCapture(event) with a file: the read of the file starts and the
\* handler returns. The photo input is part of the modal, which opens with a
\* pin; selectedFor is history: the marker of the pin current at the call
HandlePhotoCapture ==
    /\ pinManager # "none"
    /\ currentPin # Null
    /\ pendingCapture = Null
    /\ pendingCapture' =
           Some([stage |-> "reading", selectedFor |-> markerOf(currentPin),
                 position |-> 0, metadata |-> Null])
    /\ lastOp' = "handlePhotoCapture"
    /\ UNCHANGED <<aroundPins, photoMetadata, currentPin, currentPhoto, pinObjects,
                   savedLocations, markersOnMap, clickTarget, captureFailed>>

\* reader.onload of handlePhotoCapture, up to its await: the metadata of the
\* photo is prepared from the PinManager's own fields and from the lat and
\* lon of the pin that is current now (position: the marker of that pin);
\* with no current pin prepareMetadata reads pinData.lat of null and throws
CapturePhoto ==
    /\ pendingCapture # Null
    /\ Val(pendingCapture).stage = "reading"
    /\ IF currentPin = Null
       THEN /\ captureFailed' = TRUE
            /\ pendingCapture' = Null
            /\ lastOp' = "captureFailed"
            /\ UNCHANGED photoMetadata
       ELSE /\ photoMetadata' =
                   Some(prepareMetadata(compassData(currentAzimuth, currentElevation)))
            /\ pendingCapture' =
                   Some([Val(pendingCapture) EXCEPT
                            !.stage = "overlay",
                            !.position = markerOf(currentPin),
                            !.metadata = photoMetadata'])
            /\ lastOp' = "capture"
            /\ UNCHANGED captureFailed
    /\ UNCHANGED <<aroundPins, currentPin, currentPhoto, pinObjects, savedLocations,
                   markersOnMap, clickTarget>>

\* reader.onload after await addMetadataToImage(...): the photo becomes
\* this.currentPhoto and, if there is a current pin, that pin's photo
AttachPhoto ==
    /\ pendingCapture # Null
    /\ Val(pendingCapture).stage = "overlay"
    /\ LET photo ==
               Some([selectedFor |-> Val(pendingCapture).selectedFor,
                     position |-> Val(pendingCapture).position,
                     metadata |-> Val(pendingCapture).metadata])
       IN  /\ currentPhoto' = photo
           /\ pinObjects' =
                  IF currentPin # Null
                  THEN [pinObjects EXCEPT ![Val(currentPin)].photo = photo]
                  ELSE pinObjects
    /\ pendingCapture' = Null
    /\ lastOp' = "attachPhoto"
    /\ UNCHANGED <<aroundPins, photoMetadata, currentPin, savedLocations, markersOnMap,
                   clickTarget, captureFailed>>

\* the events of SpecCapture

CaptureAbsoluteEvents == {AbsoluteEvent(Some(Deg(10)), Some(Deg(120)))}

\* the second is a measured alpha of 0 and beta of 0 (the device lies flat, top to the reference)
CaptureRelativeEvents ==
    {RelativeEvent(Some(Deg(10)), Some(Deg(120))),
     RelativeEvent(Some(0), Some(0)),
     CompassEvent(Some(Deg(10)), Some(Deg(10)), Some(Deg(90))),
     RelativeEvent(Null, Null)}

CaptureAbsolute == DispatchAbsolute(CaptureAbsoluteEvents, MaxCaptureIngests)

CaptureRelative == DispatchRelative(CaptureRelativeEvents, MaxCaptureIngests)

NextCapture ==
    \/ ConstructPinManager
    \/ CreatePin
    \/ HandlePhotoCapture
    \/ CapturePhoto
    \/ AttachPhoto
    \/ CaptureAbsolute
    \/ CaptureRelative

SpecCapture == Init /\ [][NextCapture]_vars

\* the pins without the sensor: createPin, saveAsFavorite, editPin, closeModal

NextPins ==
    \/ ConstructPinManager
    \/ CreatePin
    \/ SaveAsFavorite
    \/ EditPin
    \/ CloseModal

SpecPins == Init /\ [][NextPins]_vars

\* the pins and the asynchronous capture of a photo

NextPhoto ==
    \/ ConstructPinManager
    \/ CreatePin
    \/ SaveAsFavorite
    \/ EditPin
    \/ CloseModal
    \/ DeletePin
    \/ HandlePhotoCapture
    \/ CapturePhoto
    \/ AttachPhoto

SpecPhoto == Init /\ [][NextPhoto]_vars

---------------------------------------------------------------------------
(* Properties of the raw and smoothed azimuth ranges *)

\* C1: after any sequence of ingested samples rawAzimuthDeg (this.azimuth) is
\* null or an integer with 0 <= rawAzimuthDeg < 360; never 360, never negative.
C1_RawAzimuthInRange ==
    azimuth = Null \/ (0 <= Val(azimuth) /\ Val(azimuth) < 360)

\* C2: after any sequence of ingested samples smoothedAzimuthDeg is null or an
\* integer with 0 <= smoothedAzimuthDeg < 360, in both branches of the smoother.
C2_SmoothedAzimuthInRange ==
    smoothedAzimuth = Null \/ (0 <= Val(smoothedAzimuth) /\ Val(smoothedAzimuth) < 360)

---------------------------------------------------------------------------
(* Properties of the smoother (SpecSmooth) *)

\* every reading within 90 degrees of North, with readings on both sides of the seam
StraddlesNearNorth(buffer) ==
    /\ \A i \in DOMAIN buffer : buffer[i] < 90 \/ buffer[i] > 270
    /\ \E i, j \in DOMAIN buffer : buffer[i] < 90 /\ buffer[j] > 270

\* C3: for every buffer of 1..5 raw azimuths that all lie within 90 degrees of
\* North, with at least one on each side of the seam, smoothedAzimuthDeg lies
\* within 90 degrees of North too (<= 90 or >= 270), never near 180;
\* [350, 355, 358, 2, 5] gives a value in 358..360 or 0.
C3_SeamAverageStaysNorth ==
    /\ StraddlesNearNorth(azimuthBuffer)
          => (Val(smoothedAzimuth) <= 90 \/ Val(smoothedAzimuth) >= 270)
    /\ smoothAzimuth(<<350, 355, 358, 2>>, 5).result \in {358, 359, 360, 0}

\* a full buffer that straddles the seam has been averaged to a value just east of North
C3_Witness ==
    /\ Len(azimuthBuffer) = bufferSize
    /\ StraddlesNearNorth(azimuthBuffer)
    /\ Val(smoothedAzimuth) \in 1..20

RECURSIVE TotalUpTo(_, _)
\* f[1] + ... + f[n]
TotalUpTo(f, n) == IF n = 0 THEN 0 ELSE f[n] + TotalUpTo(f, n - 1)

\* r is an integer nearest to the fraction num / den (den > 0)
NearestInteger(num, den, r) ==
    /\ 2 * den * r - den <= 2 * num
    /\ 2 * num <= 2 * den * r + den

\* r is the specified smoothing of a non-empty buffer
SpecifiedSmoothing(buffer, r) ==
    LET n == Len(buffer)
        straddling == \E i, j \in 1..n : buffer[i] < 90 /\ buffer[j] > 270
        shifted == [i \in 1..n |-> IF buffer[i] < 180 THEN buffer[i] + 360 ELSE buffer[i]]
    IN  IF straddling
        THEN NearestInteger(TotalUpTo(shifted, n) % (360 * n), n, r)
        ELSE NearestInteger(TotalUpTo(buffer, n), n, r)

\* C4: for every buffer content smoothAzimuth returns the result of the
\* specified algorithm: with a value < 90 and a value > 270 in the buffer, the
\* mean of the values with v replaced by v + 360 when v < 180, reduced modulo
\* 360; otherwise the plain mean; rounded to the nearest integer in both cases
\* ([10, 12, 11, 13, 12] gives 12).
C4_SmoothingAsSpecified ==
    /\ azimuthBuffer # <<>> => SpecifiedSmoothing(azimuthBuffer, Val(smoothedAzimuth))
    /\ smoothAzimuth(<<10, 12, 11, 13>>, 12).result = 12

\* a full buffer in the straddling branch whose mean is not a whole number
C4_Witness ==
    /\ Len(azimuthBuffer) = bufferSize
    /\ \E i, j \in DOMAIN azimuthBuffer : azimuthBuffer[i] < 90 /\ azimuthBuffer[j] > 270
    /\ \E i \in DOMAIN azimuthBuffer : azimuthBuffer[i] \in 90..270
    /\ Sum(azimuthBuffer) % bufferSize # 0

---------------------------------------------------------------------------
(* Properties of the buffer (SpecFifo) *)

\* the last n elements of s
LastN(s, n) == SubSeq(s, Len(s) - n + 1, Len(s))

\* C5: after k azimuth-updating ingests the sample buffer is exactly the last
\* min(k, 5) raw azimuths in arrival order; its length never exceeds 5, the
\* oldest value is evicted first, and after a 6th raw azimuth the 1st one no
\* longer contributes to smoothedAzimuthDeg.
C5_BufferIsLastFive ==
    LET k == Len(rawLog)
        m == IF k < 5 THEN k ELSE 5
    IN  /\ Len(azimuthBuffer) <= 5
        /\ azimuthBuffer = LastN(rawLog, m)
        /\ k > 0 => SpecifiedSmoothing(LastN(rawLog, m), Val(smoothedAzimuth))

\* six raw azimuths have been ingested and the first differs from the five kept
C5_Witness ==
    /\ Len(rawLog) = 6
    /\ \A i \in 2..6 : rawLog[i] # rawLog[1]
    /\ Len(azimuthBuffer) = 5

---------------------------------------------------------------------------
(* Properties of one ingested sample (Spec) *)

IsAbsoluteCompass(e) == e.type = "deviceorientationabsolute"

IsPlatformCompassHeading(e) == e.type = "deviceorientation" /\ e.hasCompassHeading

IsDeviceRelativeFallback(e) == e.type = "deviceorientation" /\ ~e.hasCompassHeading

\* the heading field the source of the sample requires
HeadingField(e) == IF IsPlatformCompassHeading(e) THEN e.webkitCompassHeading ELSE e.alpha

\* the azimuth candidate the handler derives from a sample whose heading field is present
CandidateOf(e) ==
    IF IsDeviceRelativeFallback(e)
    THEN fallbackCandidate(Val(e.alpha))
    ELSE Val(HeadingField(e))

\* r is the input-scaled value x rounded to whole degrees, halves upwards
IsRounding(x, r) == Scale * (2 * r - 1) <= 2 * x /\ 2 * x < Scale * (2 * r + 1)

\* the last sample carried beta and its heading field, so pitch and azimuth were both derived
DerivedPitchAndAzimuth ==
    /\ lastEvent # Null
    /\ Val(lastEvent).beta # Null
    /\ HeadingField(Val(lastEvent)) # Null

\* the tilt rule applied to candidate c under the current pitch
TiltRule(c) == IF Val(pitch) > 45 THEN (c + Deg(180)) % Deg(360) ELSE c

C7_SameUpdateOnEverySource ==
    \A a \in Alphas \ {Null}, b \in Betas :
        LET abs == handleOrientationAbsolute(HeadingState, AbsoluteEvent(a, b))
            plt == handleOrientation(HeadingState, CompassEvent(a, Null, b))
            fbk == handleOrientation(HeadingState,
                                     RelativeEvent(Some(Deg(360) - Val(a)), b))
        IN  /\ abs.azimuth = plt.azimuth
            /\ plt.azimuth = fbk.azimuth
            /\ abs.azimuthBuffer = plt.azimuthBuffer
            /\ plt.azimuthBuffer = fbk.azimuthBuffer

\* C8: for a DeviceRelativeFallback sample with non-null alpha the azimuth
\* candidate before tilt compensation is (360 - alpha) mod 360, for every alpha
\* in 0..360 (alpha = 90 gives 270, alpha = 0 gives 0).
C8_FallbackCandidateIsReduced ==
    (/\ lastEvent # Null
     /\ IsDeviceRelativeFallback(Val(lastEvent))
     /\ Val(lastEvent).alpha # Null)
        => CandidateOf(Val(lastEvent)) = (Deg(360) - Val(Val(lastEvent).alpha)) % Deg(360)

\* C9: after any sequence of ingested samples pitchDeg (this.pitch) is null or
\* an integer with -90 <= pitchDeg <= 90.
C9_PitchInRange ==
    pitch = Null \/ (-90 <= Val(pitch) /\ Val(pitch) <= 90)

\* a sample with beta = -180 has been clamped to a pitch of -90
C9_Witness ==
    /\ lastEvent # Null
    /\ Val(lastEvent).beta = Some(Deg(-180))
    /\ pitch = Some(-90)

\* clamp(x, lo, hi)
Clamp(x, lo, hi) == IF x > hi THEN hi ELSE IF x < lo THEN lo ELSE x

\* clamp(beta - 90, -90, 90), input-scaled
ClampedTilt(beta) == Clamp(beta - Deg(90), Deg(-90), Deg(90))

\* C10 as stated: for every ingested sample with non-null beta pitchDeg becomes
\* clamp(beta - 90, -90, 90).
C10_PitchIsClampExactly ==
    (lastEvent # Null /\ Val(lastEvent).beta # Null)
        => Deg(Val(pitch)) = ClampedTilt(Val(Val(lastEvent).beta))

\* C10 amended: for every ingested sample with non-null beta, whatever its
\* heading source and whether or not its azimuth is updated, pitchDeg becomes
\* clamp(beta - 90, -90, 90) rounded to the nearest integer degree, and this
\* pitch is computed before the azimuth: the tilt compensation of that sample
\* flips exactly when the rounded beta - 90 of that same sample exceeds 45.
C10_PitchIsRoundedClampAndComesFirst ==
    (lastEvent # Null /\ Val(lastEvent).beta # Null)
        => LET e == Val(lastEvent)
               tilted == 2 * (Val(e.beta) - Deg(90)) >= 91 * Scale
           IN  /\ IsRounding(ClampedTilt(Val(e.beta)), Val(pitch))
               /\ HeadingField(e) # Null
                     => IsRounding(IF tilted
                                   THEN (CandidateOf(e) + Deg(180)) % Deg(360)
                                   ELSE CandidateOf(e),
                                   Val(azimuth))

\* a sample with a fractional beta and no alpha updated the pitch alone, after
\* an earlier sample had stored an azimuth
C10_Witness ==
    /\ lastEvent = Some(AbsoluteEvent(Null, Some(Deg(136) - 1)))
    /\ pitch = Some(46)
    /\ azimuth # Null

---------------------------------------------------------------------------
(* Cardinal direction *)

\* the display shows the whole-degree azimuth a with the label d
Shown(a, d) ==
    (azimuthText # Null /\ Val(azimuthText).azimuth = a) => Val(azimuthText).direction = d

\* C11 as stated: the label shown for an azimuth of 0 is N, for 22 is N,
\* for 23 is NNE and for 359 is N.
C11_CardinalExamplesAsStated ==
    Shown(0, "N") /\ Shown(22, "N") /\ Shown(23, "NNE") /\ Shown(359, "N")

\* C11 amended: the label shown for an azimuth of 0 is N, for 22 is NNE
\* (22 / 22.5 rounds to 1), for 23 is NNE and for 359 is N.
C11_CardinalExamplesRounded ==
    Shown(0, "N") /\ Shown(22, "NNE") /\ Shown(23, "NNE") /\ Shown(359, "N")

C11_Witness ==
    /\ azimuthText # Null
    /\ Val(azimuthText).azimuth = 22
    /\ Val(azimuthText).direction = "NNE"

\* r is azimuth / 22.5 rounded to the nearest integer: |a / 22.5 - r| <= 1/2
IsNearestSector(a, r) ==
    LET d == 2 * a - 45 * r
    IN  2 * (IF d < 0 THEN -d ELSE d) <= 45

\* C12: for every whole azimuth from 0 to 360 the label shown is the entry
\* of the 16-point rose at index round(azimuth / 22.5) mod 16; at 360, and
\* wherever the rounding gives 16, that is index 0 (N) and never undefined.
C12_LabelIsRoseEntryOfRoundedSector ==
    azimuthText # Null =>
        LET a == Val(azimuthText).azimuth
            d == Val(azimuthText).direction
        IN  a \in 0..360 =>
                /\ \E r \in 0..16 : IsNearestSector(a, r) /\ d = directions[(r % 16) + 1]
                /\ d # "undefined"
                /\ a = 360 => d = "N"

C12_Witness ==
    /\ azimuthText # Null
    /\ Val(azimuthText).azimuth = 360
    /\ Val(azimuthText).direction = "N"

---------------------------------------------------------------------------
(* Samples without values, and exceptions *)

EventTypes == {"deviceorientationabsolute", "deviceorientation"}

\* a sample with alpha = null and beta = null that carries no platform compass heading
NullSamples == {AbsoluteEvent(Null, Null), RelativeEvent(Null, Null)}

\* the step dispatched an orientation event out of the set events
Dispatched(events) == lastOp' \in EventTypes /\ lastEvent' # Null /\ Val(lastEvent') \in events

C14_NoExceptionEscapesIngest == ~uncaught

---------------------------------------------------------------------------
(* Capability, start and restart, getters *)

\* the platform lacks DeviceOrientationEvent, or it asks for a permission
\* that has not been granted
CapabilityUnavailable ==
    \/ platform = "unsupported"
    \/ platform = "needsPermission" /\ permission # "granted"

\* C15: while the capability is unavailable the engine is inert: no sample
\* listener is registered, isTracking is false, and azimuth, pitch and
\* smoothedAzimuth are null.
C15_InertWhileUnavailable ==
    CapabilityUnavailable =>
        /\ absoluteListeners = 0
        /\ relativeListeners = 0
        /\ ~isTracking
        /\ azimuth = Null
        /\ pitch = Null
        /\ smoothedAzimuth = Null

\* C16: startTracking() called while isTracking is true registers no
\* further listener and changes no state.
C16_StartTrackingIdempotent ==
    [][(lastOp' = "startTracking" /\ isTracking) =>
          UNCHANGED <<engineVars, pageVars, pinVars, lastEvent, snapshot>>]_vars

C16_Witness ==
    /\ lastOp = "startTracking"
    /\ isTracking
    /\ absoluteListeners = 1
    /\ relativeListeners = 1
    /\ Len(azimuthBuffer) = 2

\* the operations of starting tracking and of requesting permission
RestartOps == {"startTracking", "requestPermission", "permissionResult", "dataCheck"}

\* C17: startTracking and requestPermission leave azimuth, pitch,
\* smoothedAzimuth and azimuthBuffer as they are; the buffer keeps holding
\* the last readings across a restart, so the first sample after it is
\* averaged together with the earlier entries; while no sample arrives the
\* state stays at its last value.
C17_RestartKeepsHeadingState ==
    /\ [][lastOp' \in RestartOps =>
             UNCHANGED <<azimuth, pitch, smoothedAzimuth, azimuthBuffer>>]_vars
    /\ [](LET k == Len(rawLog)
              m == IF k < bufferSize THEN k ELSE bufferSize
          IN  /\ azimuthBuffer = LastN(rawLog, m)
              /\ k > 0 => smoothedAzimuth = Some(roundAverage(average(azimuthBuffer))))

\* one reading before the restart, then the restart, then a sample that
\* both listeners of its type handled
C17_Witness ==
    /\ relativeListeners = 2
    /\ absoluteListeners = 2
    /\ Len(azimuthBuffer) = 3
    /\ lastOp \in EventTypes

\* C18: getAzimuth, getPitch, getCardinalDirection, updateDisplay and
\* updateMapMarker never change azimuth, pitch, smoothedAzimuth or
\* azimuthBuffer; two reads with no sample between them return the same;
\* only the two sample handlers change the heading state.
C18_ReadsChangeNothing ==
    /\ [][lastOp' = "read" =>
             /\ UNCHANGED <<azimuth, pitch, smoothedAzimuth, azimuthBuffer>>
             /\ lastOp = "read" => snapshot' = snapshot]_vars
    /\ [][<<azimuth, pitch, smoothedAzimuth, azimuthBuffer>>'
             # <<azimuth, pitch, smoothedAzimuth, azimuthBuffer>> => lastOp' \in EventTypes]_vars
    /\ [](\A after \in {updateDisplay(HeadingState), updateMapMarker(HeadingState)} :
             /\ after.azimuth = azimuth
             /\ after.pitch = pitch
             /\ after.smoothedAzimuth = smoothedAzimuth
             /\ after.azimuthBuffer = azimuthBuffer)

C18_Witness ==
    /\ lastOp = "read"
    /\ snapshot # Null
    /\ Val(snapshot).azimuth = azimuth
    /\ Val(snapshot).pitch = pitch
    /\ azimuth # Null
    /\ azimuth # smoothedAzimuth

---------------------------------------------------------------------------
(* Cold start *)

\* the sample carries a heading value in some field
CarriesHeading(e) == e.alpha # Null \/ e.webkitCompassHeading # Null

\* C19: the heading state starts null and empty, the azimuth stays null
\* until a sample is ingested that carries a usable heading field, and the
\* pitch stays null until a sample is ingested whose beta is not null.
C19_NullUntilFirstUsableSample ==
    [][/\ lastEvent = Null =>
              /\ azimuth = Null
              /\ pitch = Null
              /\ smoothedAzimuth = Null
              /\ azimuthBuffer = <<>>
       /\ (azimuth = Null /\ azimuth' # Null) =>
              /\ lastEvent' # Null
              /\ CarriesHeading(Val(lastEvent'))
       /\ (pitch = Null /\ pitch' # Null) =>
              /\ lastEvent' # Null
              /\ Val(lastEvent').beta # Null]_vars

---------------------------------------------------------------------------
(* Photo metadata *)

\* C20: the azimuth and the elevation put into the metadata of a captured
\* photo are the engine's azimuth and pitch as they are at the instant of
\* the capture.
C20_MetadataIsEngineHeading ==
    [][(lastOp' = "capture" /\ photoMetadata' # Null) =>
          /\ azimuth # Null => Val(photoMetadata').azimuth = Deg(Val(azimuth))
          /\ pitch # Null => Val(photoMetadata').elevation = Some(Deg(Val(pitch)))]_vars

\* the PinManager's listener has received the event dispatched last, a
\* 'deviceorientation' event
PinSawLastEvent ==
    /\ currentAzimuth # Null
    /\ lastEvent # Null
    /\ Val(lastEvent).type = "deviceorientation"

\* C21: heading data that is not known is recorded as unknown and not as
\* zero: a photo captured before the PinManager received any sample does
\* not get azimuth 0, and a photo captured after a sample that measured
\* alpha = 0 and beta = 0 does not get an unknown (null) elevation.
C21_UnknownIsNotZero ==
    (lastOp = "capture" /\ photoMetadata # Null) =>
        /\ currentAzimuth = Null => Val(photoMetadata).azimuth # 0
        /\ (PinSawLastEvent /\ Val(lastEvent).beta = Some(0)) =>
               Val(photoMetadata).elevation # Null

---------------------------------------------------------------------------
(* Consistency of the heading state, independence and skipping of samples *)

\* C22: between ingests the heading state is consistent: azimuth is null
\* exactly when the buffer is empty and exactly when smoothedAzimuth is
\* null; the last element of a non-empty buffer is the raw azimuth and
\* smoothedAzimuth is the circular average of the buffer; the buffer holds
\* the readings in arrival order.
C22_StateIsMutuallyConsistent ==
    /\ (azimuth = Null) <=> (azimuthBuffer = <<>>)
    /\ (azimuth = Null) <=> (smoothedAzimuth = Null)
    /\ azimuthBuffer # <<>> =>
           /\ azimuthBuffer[Len(azimuthBuffer)] = Val(azimuth)
           /\ SpecifiedSmoothing(azimuthBuffer, Val(smoothedAzimuth))
    /\ LET k == Len(rawLog)
       IN  azimuthBuffer = LastN(rawLog, IF k < 5 THEN k ELSE 5)

C22_Witness ==
    /\ Len(azimuthBuffer) = 2
    /\ azimuthBuffer[1] # azimuthBuffer[2]
    /\ azimuth # smoothedAzimuth
    /\ uncaught

\* the handler the event is dispatched to, applied to the state st
ingest(st, e) ==
    IF e.type = "deviceorientationabsolute"
    THEN handleOrientationAbsolute(st, e)
    ELSE handleOrientation(st, e)

\* the ingest of e into st stores a raw azimuth
UpdatesAzimuth(st, e) == Len(ingest(st, e).rawLog) > Len(st.rawLog)

\* C23: the raw azimuth an ingest stores depends on the fields of that
\* sample only: the engine in its present state and a freshly constructed
\* engine store the same raw azimuth for the same azimuth-updating sample.
C23_SampleIndependence ==
    \A e \in AbsoluteEvents \cup RelativeEvents :
        (UpdatesAzimuth(HeadingState, e) /\ UpdatesAzimuth(init(constructed), e)) =>
            ingest(HeadingState, e).azimuth = ingest(init(constructed), e).azimuth

\* C24: the azimuth update of a sample is skipped exactly when the heading
\* field its source requires is null (alpha on the absolute and on the
\* fallback path, the compass heading on the platform-compass path): a
\* skipped update leaves azimuth, buffer and smoothedAzimuth as they were,
\* and a sample whose field is present stores a raw azimuth.
C24_SkippedExactlyWhenFieldNull ==
    [][(lastOp' \in EventTypes /\ lastEvent' # Null) =>
          IF HeadingField(Val(lastEvent')) = Null
          THEN UNCHANGED <<azimuth, azimuthBuffer, smoothedAzimuth, rawLog>>
          ELSE /\ Len(rawLog') = Len(rawLog) + 1
               /\ azimuth' = Some(rawLog'[Len(rawLog')])]_vars

---------------------------------------------------------------------------
(* Listeners, sources and the retry button *)

\* C25: whatever init, startTracking and requestPermission calls were made,
\* at most one listener per orientation event type is registered, and a
\* delivered event appends at most one value to the smoothing buffer.
C25_AtMostOneListenerPerType ==
    [][/\ absoluteListeners' <= 1
       /\ relativeListeners' <= 1
       /\ Len(rawLog') <= Len(rawLog) + 1]_vars

\* C26: the buffer does not mix heading sources: no value derived through
\* the device-relative fallback (360 - alpha) is appended to a buffer whose
\* newest value came from an absolute compass event.
C26_BufferKeepsOneSource ==
    [][~(/\ lastEvent # Null
         /\ IsAbsoluteCompass(Val(lastEvent))
         /\ azimuthBuffer # <<>>
         /\ Val(lastEvent).alpha # Null
         /\ Val(lastEvent).beta # Null
         /\ lastOp' = "deviceorientation"
         /\ IsDeviceRelativeFallback(Val(lastEvent'))
         /\ Len(rawLog') > Len(rawLog))]_vars

\* the last five raw azimuths stored are all v
LastFiveAre(v) ==
    /\ Len(rawLog) >= 5
    /\ \A i \in (Len(rawLog) - 4)..Len(rawLog) : rawLog[i] = v

\* C27: after five consecutive azimuth-updating samples that all give the
\* same raw azimuth v, 0 <= v < 360, smoothedAzimuth is v, whatever the
\* buffer held before.
C27_ConvergesOnSteadyHeading ==
    \A v \in 0..359 : LastFiveAre(v) => smoothedAzimuth = Some(v)

\* a different reading first, then five equal ones
C27_Witness ==
    /\ Len(rawLog) = 6
    /\ rawLog[1] > 270
    /\ LastFiveAre(2)
    /\ smoothedAzimuth = Some(2)

\* C28: a user can always retry: whenever no requestPermission flow is in
\* progress (its 2 s data check included) and no orientation data has
\* arrived, the enable / retry button is present and enabled.
C28_RetryAlwaysPossible ==
    (pending = "idle" /\ ~hasReceivedData) => button = "enabled"

---------------------------------------------------------------------------
(* Pins, saved locations and the capture of a photo *)

\* C29: after any sequence of createPin, saveAsFavorite, editPin and
\* closeModal the marker of every location saved with saveAsFavorite is still
\* on the map (closeModal and createPin remove only the marker of a pin that
\* was never saved)
C29_SavedMarkersStayOnMap ==
    \A i \in DOMAIN savedLocations :
        pinObjects[savedLocations[i]].marker \in markersOnMap

\* C30: a photo selected while pin P is the current pin is attached to P
\* only: the completion of the capture attaches the photo, and the position
\* in its metadata, to no other pin than the one current at the call of
\* handlePhotoCapture, and no completion step fails on a null pin
C30_PhotoAttachedToItsPinOnly ==
    [][/\ lastOp' # "captureFailed"
       /\ lastOp' = "capture" =>
              Val(pendingCapture').position = Val(pendingCapture).selectedFor
       /\ lastOp' = "attachPhoto" =>
              \A o \in DOMAIN pinObjects :
                  pinObjects'[o].photo # pinObjects[o].photo =>
                      pinObjects[o].marker = Val(pendingCapture).selectedFor]_vars

=============================================================================
